---- MODULE Spec2Model ----
(***************************************************************************)
(* Model of src/main.py (Corewar Marble): the log parser (R_ALIVE, R_WIN,  *)
(* _clean), the log tick (_tick_log, _ensure_player) and the per-frame     *)
(* interpolation (_lerp_marbles, Player.move).                             *)
(*                                                                         *)
(* Text.  A line is a sequence of tokens; its text is the concatenation of *)
(* the tokens.  The literals of the two regular expressions are single     *)
(* tokens ("The player ", " is alive.", " has won."), a digit, a           *)
(* parenthesis, a whitespace character and any other piece of text are     *)
(* tokens of their own.                                                    *)
(*                                                                         *)
(* Numbers.  Times are in units of 1/10000 s and distances in units of     *)
(* 1/20000 of a scene unit, so that 0.4 s = 4000, 4.0 units = 80000 and    *)
(* the speed 4.0 / 0.4 = 10 units/s = 20 distance units per time unit; all *)
(* values the model reaches are then integers.                             *)
(***************************************************************************)
EXTENDS Integers, Sequences, FiniteSets, TLC

\* lines      the lines of the log file, as read by readlines()
\* log_lines  _log_lines: the lines the generator of _clean yields (the
\*            generator is lazy, but over a list that never changes)
\* cursor     the number of lines taken from _log_lines so far
\* players    _players: name -> Player
\* next_lane  _next_lane
\* tick_task  what the last run of _tick_log returned: Task.again while the
\*            task is scheduled, Task.done once it is removed
\* ticks      the number of runs of _tick_log
\* line_time, speed   the tick interval and the marble speed
\* p_pc, p_line, p_event   one line through _clean and the two matches
VARIABLES lines, log_lines, cursor, players, next_lane, tick_task, ticks,
          line_time, speed, p_pc, p_line, p_event

vars == <<lines, log_lines, cursor, players, next_lane, tick_task, ticks,
          line_time, speed, p_pc, p_line, p_event>>

raceVars == <<lines, log_lines, cursor, players, next_lane, tick_task, ticks>>
cadenceVars == <<line_time, speed>>
parseVars == <<p_pc, p_line, p_event>>

(***************************************************************************)
(* Configuration                                                           *)
(***************************************************************************)
LINE_TIME == 4000
STEP_DIST == 80000
SPEED == STEP_DIST \div LINE_TIME
START_Y == 0
LANES_X == <<-15, -5, 5, 15>>

(***************************************************************************)
(* Bounds                                                                  *)
(***************************************************************************)
MaxLen == 3
NumNames == 2
MaxLaneLen == 5
NumLaneNames == 5
MaxFrame == 2
MaxNameLen == 2
MaxDigits == 2
MaxCadenceLen == 2
MaxLiveLen == 2

\* the frame times globalClock.getDt() returns: multiples of 3/8 of a tick
\* interval (0.15 s), whose step is no divisor of STEP_DIST
DtUnit == (3 * LINE_TIME) \div 8
FrameTimes == {k * DtUnit : k \in 0..MaxFrame}

(***************************************************************************)
(* Tokens                                                                  *)
(***************************************************************************)
THE_PLAYER == "The player "
IS_ALIVE == " is alive."
HAS_WON == " has won."
Digit == {"1", "2"}
Whitespace == {" ", "\n"}
\* every token of the lines below
Tokens == {THE_PLAYER, IS_ALIVE, HAS_WON, "(", ")", "a", "x",
           "Warning: low cycles", "alice", "bob", "carol", "dave", "eve",
           "frank", "grace"} \cup Digit \cup Whitespace

Min(a, b) == IF a < b THEN a ELSE b
Max(a, b) == IF a > b THEN a ELSE b

\* where a greedy repetition over the tokens of class cls that starts at
\* index from ends: the least index i >= from with s[i] outside cls,
\* Len(s) + 1 if there is none
EndOfRun(s, from, cls) ==
    LET cands == {i \in from..Len(s) : s[i] \notin cls}
    IN  IF cands = {} THEN Len(s) + 1
        ELSE CHOOSE i \in cands : \A j \in cands : i <= j

\* str.strip(): drop the leading and the trailing whitespace
Strip(l) ==
    LET nonWs == {i \in 1..Len(l) : l[i] \notin Whitespace}
    IN  IF nonWs = {} THEN <<>>
        ELSE LET lo == CHOOSE i \in nonWs : \A j \in nonWs : i <= j
                 hi == CHOOSE i \in nonWs : \A j \in nonWs : i >= j
             IN  SubSeq(l, lo, hi)

\* mutant: blank lines are not filtered out
CleanKeepBlank(ls) == [i \in 1..Len(ls) |-> Strip(ls[i])]

\* (l.strip() for l in lines if l.strip())
Clean(ls) ==
    LET stripped == [i \in 1..Len(ls) |-> Strip(ls[i])]
        NonEmpty(l) == l # <<>>
    IN  SelectSeq(stripped, NonEmpty)

NoMatch == [ok |-> FALSE, group |-> <<>>]

\* mutant: the name class is [^)]* and accepts empty parentheses
RMatchEmptyName(verb, line) ==
    LET n  == Len(line)
        d1 == EndOfRun(line, 2, Digit)
        g0 == d1 + 1
        g1 == EndOfRun(line, g0, Tokens \ {")"})
    IN  IF /\ n >= 1
           /\ line[1] = THE_PLAYER
           /\ d1 > 2
           /\ d1 <= n
           /\ line[d1] = "("
           /\ g1 + 1 <= n
           /\ line[g1 + 1] = verb
        THEN [ok |-> TRUE, group |-> SubSeq(line, g0, g1 - 1)]
        ELSE NoMatch

\* re.compile(r"The player \d+\(([^)]+)\)<verb>").match(line): the match is
\* anchored at the start of the line only; \d+ and [^)]+ are greedy and the
\* token that must follow each of them is outside its class, so the greedy
\* extent is the only one that can match.
RMatch(verb, line) ==
    LET n  == Len(line)
        d1 == EndOfRun(line, 2, Digit)
        g0 == d1 + 1
        g1 == EndOfRun(line, g0, Tokens \ {")"})
    IN  IF /\ n >= 1
           /\ line[1] = THE_PLAYER
           /\ d1 > 2
           /\ d1 <= n
           /\ line[d1] = "("
           /\ g1 > g0
           /\ g1 + 1 <= n
           /\ line[g1 + 1] = verb
        THEN [ok |-> TRUE, group |-> SubSeq(line, g0, g1 - 1)]
        ELSE NoMatch

R_ALIVE(line) == RMatch(IS_ALIVE, line)
R_WIN(line) == RMatch(HAS_WON, line)

\* the dispatch of _tick_log on one line of the cleaned log
LineEvent(line) ==
    IF R_ALIVE(line).ok THEN [kind |-> "alive", name |-> R_ALIVE(line).group]
    ELSE IF R_WIN(line).ok THEN [kind |-> "won", name |-> R_WIN(line).group]
    ELSE [kind |-> "none", name |-> <<>>]

(***************************************************************************)
(* Marbles                                                                 *)
(***************************************************************************)
Task_again == "again"
Task_done == "done"

\* Player(model=ball, label=label_np): x and y are the position of the model,
\* gold is its colour
NewPlayer(lane_x) ==
    [travelled |-> 0, target |-> 0, x |-> lane_x, y |-> START_Y, gold |-> FALSE]

\* Player.move
Move(player, delta) ==
    [player EXCEPT !.travelled = @ + delta, !.y = @ + delta]

LaneX(lane) == LANES_X[(lane % Len(LANES_X)) + 1]

\* _ensure_player: the players after the call
EnsurePlayer(ps, lane, name) ==
    IF name \in DOMAIN ps THEN ps
    ELSE (name :> NewPlayer(LaneX(lane))) @@ ps

\* mutant: the lane counter advances on every call
EnsureLaneAlways(ps, lane, name) == lane + 1

\* _ensure_player: _next_lane after the call
EnsureLane(ps, lane, name) ==
    IF name \in DOMAIN ps THEN lane ELSE lane + 1

\* mutant: the target is assigned, not incremented
AddTargetAssign(player) == [player EXCEPT !.target = STEP_DIST]

\* player.target += STEP_DIST
AddTarget(player) == [player EXCEPT !.target = @ + STEP_DIST]

\* player.model.set_color(Vec4(1, 0.84, 0, 1))
SetGold(player) == [player EXCEPT !.gold = TRUE]

\* mutant: the win branch returns Task.again like the alive branch
TickReturnNoHalt(kind) ==
    IF kind = "stop" THEN Task_done ELSE Task_again

\* mutant: a line that matches neither pattern ends the replay
TickReturnHaltOnJunk(kind) ==
    IF kind = "alive" THEN Task_again ELSE Task_done

\* the value _tick_log returns: "stop" is the StopIteration branch
TickReturn(kind) ==
    IF kind \in {"stop", "won"} THEN Task_done ELSE Task_again

\* mutant: the step is not clamped to the remaining distance
LerpDeltaNoClamp(player, step) ==
    IF player.travelled < player.target THEN step ELSE 0

\* mutant: a gold marble is not moved any more
LerpDeltaSkipGold(player, step) ==
    IF player.travelled < player.target /\ ~player.gold
    THEN Min(step, player.target - player.travelled)
    ELSE 0

\* mutant: a marble closer to its target than one step is not moved
LerpDeltaNoPartial(player, step) ==
    IF player.travelled < player.target
       /\ step <= player.target - player.travelled
    THEN step
    ELSE 0

\* the distance _lerp_marbles moves one player in a frame
LerpDelta(player, step) ==
    IF player.travelled < player.target
    THEN Min(step, player.target - player.travelled)
    ELSE 0

\* _lerp_marbles with marble speed spd and frame time dt
LerpMarbles(spd, dt) ==
    /\ players' = [n \in DOMAIN players |->
                      Move(players[n], LerpDelta(players[n], spd * dt))]
    /\ UNCHANGED <<lines, log_lines, cursor, next_lane, tick_task, ticks>>

Lerp ==
    /\ \E dt \in FrameTimes : LerpMarbles(SPEED, dt)
    /\ UNCHANGED <<cadenceVars, parseVars>>

\* the body of _tick_log on the line it read: the players, _next_lane and the
\* returned value
TickStep(ps, lane, line) ==
    LET ev  == LineEvent(line)
        ens == EnsurePlayer(ps, lane, ev.name)
    IN  IF ev.kind = "alive"
        THEN [players   |-> [ens EXCEPT ![ev.name] = AddTarget(@)],
              next_lane |-> EnsureLane(ps, lane, ev.name),
              ret       |-> TickReturn(ev.kind)]
        ELSE IF ev.kind = "won"
        THEN [players   |-> [ens EXCEPT ![ev.name] = SetGold(AddTarget(@))],
              next_lane |-> EnsureLane(ps, lane, ev.name),
              ret       |-> TickReturn(ev.kind)]
        ELSE [players |-> ps, next_lane |-> lane, ret |-> TickReturn(ev.kind)]

\* _tick_log, run by the task manager while the task is scheduled
TickLog ==
    /\ tick_task = Task_again
    /\ ticks' = ticks + 1
    /\ IF cursor >= Len(log_lines)
       THEN /\ tick_task' = TickReturn("stop")
            /\ UNCHANGED <<cursor, players, next_lane>>
       ELSE LET r == TickStep(players, next_lane, log_lines[cursor + 1])
            IN  /\ cursor' = cursor + 1
                /\ players' = r.players
                /\ next_lane' = r.next_lane
                /\ tick_task' = r.ret
    /\ UNCHANGED <<lines, log_lines, cadenceVars, parseVars>>

(***************************************************************************)
(* Logs                                                                    *)
(***************************************************************************)
AllNames == <<"alice", "bob", "carol", "dave", "eve", "frank", "grace">>
Names(k) == {AllNames[i] : i \in 1..k}

AliveLine(n) == <<THE_PLAYER, "1", "(", n, ")", IS_ALIVE, "\n">>
WonLine(n) == <<THE_PLAYER, "1", "(", n, ")", HAS_WON, "\n">>
JunkLine == <<"Warning: low cycles", "\n">>
BlankLine == <<"\n">>

SeqsUpTo(S, k) == UNION {[1..m -> S] : m \in 0..k}

RaceLines ==
    {AliveLine(n) : n \in Names(NumNames)} \cup
    {WonLine(n) : n \in Names(NumNames)} \cup {JunkLine, BlankLine}

\* CorewarMarble.__init__ on the lines ls read from the log file
InitRace(ls) ==
    /\ lines = ls
    /\ log_lines = Clean(ls)
    /\ cursor = 0
    /\ players = <<>>
    /\ next_lane = 0
    /\ tick_task = Task_again
    /\ ticks = 0

InitCadence ==
    /\ line_time = LINE_TIME
    /\ speed = SPEED

NoParse ==
    /\ p_pc = "idle"
    /\ p_line = <<>>
    /\ p_event = [kind |-> "none", name |-> <<>>]

Init ==
    /\ \E ls \in SeqsUpTo(RaceLines, MaxLen) : InitRace(ls)
    /\ InitCadence
    /\ NoParse

Next == TickLog \/ Lerp

Spec == Init /\ [][Next]_vars

(***************************************************************************)
(* Properties of the race                                                  *)
(***************************************************************************)
Consumed == SubSeq(log_lines, 1, cursor)
Recognized(line) == LineEvent(line).kind # "none"
Arrived(n) == players[n].travelled = players[n].target
WonProcessed == \E i \in 1..cursor : LineEvent(log_lines[i]).kind = "won"

\* a step of the frame task that moved some marble
FrameMoved == cursor' = cursor /\ players' # players

C1Halted ==
    WonProcessed =>
        /\ tick_task = Task_done
        /\ UNCHANGED <<tick_task, ticks, cursor, next_lane>>
        /\ DOMAIN players' = DOMAIN players
        /\ \A n \in DOMAIN players : players'[n].target = players[n].target
\* C1: once a tick has processed a Won line the tick task is done and stays
\* done: no later step runs a tick, moves the cursor, creates a contender or
\* changes a target, whatever lines remain.
C1Finished == [][C1Halted]_vars

\* a Won line was processed, lines remain unread and frames have run since
C1Witness ==
    /\ WonProcessed
    /\ cursor < Len(log_lines)
    /\ \E n \in DOMAIN players : players[n].gold /\ players[n].travelled > 0

\* C2: 0 <= travelled <= target for every contender in every reachable state.
C2Bounded ==
    \A n \in DOMAIN players :
        0 <= players[n].travelled /\ players[n].travelled <= players[n].target

\* a frame step was clamped (STEP_DIST is no multiple of a frame's step) while
\* another contender is still on its way
C2Witness ==
    /\ \E n \in DOMAIN players : players[n].travelled = STEP_DIST
    /\ \E n \in DOMAIN players :
          0 < players[n].travelled /\ players[n].travelled < players[n].target

NamedIn(ls) == {LineEvent(ls[i]).name : i \in {j \in 1..Len(ls) : Recognized(ls[j])}}
CountFor(ls, n) ==
    Cardinality({i \in 1..Len(ls) : Recognized(ls[i]) /\ LineEvent(ls[i]).name = n})

C3Inv ==
    /\ DOMAIN players = NamedIn(Consumed)
    /\ \A n \in DOMAIN players :
          players[n].target = STEP_DIST * CountFor(Consumed, n)
C3Step ==
    /\ DOMAIN players \subseteq DOMAIN players'
    /\ \A n \in DOMAIN players' :
          LET old == IF n \in DOMAIN players THEN players[n].target ELSE 0
          IN  /\ players'[n].target >= old
              /\ players'[n].target # old =>
                    /\ cursor' = cursor + 1
                    /\ Recognized(log_lines[cursor'])
                    /\ LineEvent(log_lines[cursor']).name = n
\* C3: the contenders are the names of the consumed Alive and Won lines, each
\* target is STEP_DIST times the number of consumed lines naming it, and a
\* target never decreases and changes only on a tick consuming such a line.
C3Targets == []C3Inv /\ [][C3Step]_vars

\* alive(alice), alive(bob), won(alice) consumed
C3Witness ==
    /\ cursor = 3
    /\ DOMAIN players = {<<"alice">>, <<"bob">>}
    /\ players[<<"alice">>].target = 2 * STEP_DIST
    /\ players[<<"alice">>].gold
    /\ players[<<"bob">>].target = STEP_DIST

\* C6 as stated: a frame never changes the travelled value of a gold (winner)
\* contender, and moves every other contender that has not arrived.
C6WinnerFrozen ==
    [][/\ \A n \in DOMAIN players :
             players[n].gold => players'[n].travelled = players[n].travelled
       /\ FrameMoved =>
             \A n \in DOMAIN players :
                 ~players[n].gold /\ ~Arrived(n) =>
                     players'[n].travelled > players[n].travelled]_vars

\* C6 amended: a frame that moves some marble moves every contender that has
\* not arrived, the winner included, and no further than its target; a
\* contender that has arrived is not moved.
C6AllAdvance ==
    [][FrameMoved =>
          \A n \in DOMAIN players :
              /\ ~Arrived(n) =>
                    /\ players'[n].travelled > players[n].travelled
                    /\ players'[n].travelled <= players[n].target
              /\ Arrived(n) => players'[n] = players[n]]_vars

\* the winner has moved after its win while another contender has not arrived
C6Witness ==
    /\ tick_task = Task_done
    /\ \E n \in DOMAIN players :
          /\ players[n].gold
          /\ players[n].travelled > players[n].target - STEP_DIST
    /\ \E n \in DOMAIN players : ~players[n].gold /\ ~Arrived(n)

\* the state a sequence of cleaned lines leads to, tick after tick
RECURSIVE RunLog(_)
RunLog(ls) ==
    IF ls = <<>>
    THEN [players |-> <<>>, next_lane |-> 0, ret |-> Task_again]
    ELSE LET before == RunLog(SubSeq(ls, 1, Len(ls) - 1))
         IN  IF before.ret = Task_done THEN before
             ELSE TickStep(before.players, before.next_lane, ls[Len(ls)])

\* what the ticks decide of the contenders (travelled and y are the frames')
Decided(ps) ==
    [n \in DOMAIN ps |->
        [target |-> ps[n].target, x |-> ps[n].x, gold |-> ps[n].gold]]

C8Step ==
    (/\ ticks' = ticks + 1
     /\ cursor < Len(log_lines)
     /\ ~Recognized(log_lines[cursor + 1]))
    => /\ cursor' = cursor + 1
       /\ tick_task' = Task_again
       /\ UNCHANGED <<players, next_lane, lines, log_lines>>
C8AsIfAbsent ==
    LET r == RunLog(SelectSeq(Consumed, Recognized))
    IN  /\ Decided(players) = Decided(r.players)
        /\ next_lane = r.next_lane
        /\ tick_task = IF r.ret = Task_done \/ ticks > cursor
                       THEN Task_done ELSE Task_again
\* C8: a tick that consumes a line matching neither pattern moves the cursor
\* by one, leaves every contender, the lane counter and the task untouched
\* and scheduled, and the state the ticks reach is the one they reach on the
\* log without its unrecognized lines.
C8Ignored == [][C8Step]_vars /\ []C8AsIfAbsent

\* an unrecognized line was consumed between two alive lines
C8Witness ==
    /\ cursor = 3
    /\ Recognized(log_lines[1])
    /\ ~Recognized(log_lines[2])
    /\ LineEvent(log_lines[3]).kind = "alive"
    /\ tick_task = Task_again
    /\ \E n \in DOMAIN players : players[n].target = 2 * STEP_DIST

NonBlank(l) == \E i \in 1..Len(l) : l[i] \notin Whitespace
NonBlankCount(ls) == Cardinality({i \in 1..Len(ls) : NonBlank(ls[i])})

C9Step ==
    /\ (ticks' = ticks + 1 /\ cursor = NonBlankCount(lines))
       => /\ tick_task' = Task_done
          /\ UNCHANGED <<players, next_lane, cursor>>
    /\ tick_task = Task_done => UNCHANGED <<tick_task, ticks>>
C9Empty ==
    (NonBlankCount(lines) = 0 /\ ticks >= 1)
    => /\ ticks = 1
       /\ tick_task = Task_done
       /\ cursor = 0
       /\ players = <<>>
\* C9: a tick that finds no unread non-blank line ends the task and changes
\* no contender, the task never runs again, and on a log without a non-blank
\* line the first tick ends the task with no contender created.
C9EndOfLog == [][C9Step]_vars /\ []C9Empty

\* the log ran out, behind a blank last line, without a win
C9Witness ==
    /\ Len(lines) >= 2
    /\ ~NonBlank(lines[Len(lines)])
    /\ cursor = NonBlankCount(lines)
    /\ cursor >= 1
    /\ ~WonProcessed
    /\ tick_task = Task_done
    /\ ticks = cursor + 1

(***************************************************************************)
(* Liveness: the task manager keeps running the frame task and the tick    *)
(* task, and frames take time.                                             *)
(***************************************************************************)
LerpPositive ==
    /\ \E dt \in FrameTimes \ {0} : LerpMarbles(SPEED, dt)
    /\ UNCHANGED <<cadenceVars, parseVars>>

InitLive ==
    /\ \E ls \in SeqsUpTo(RaceLines, MaxLiveLen) : InitRace(ls)
    /\ InitCadence
    /\ NoParse

SpecLive ==
    InitLive /\ [][Next]_vars /\ WF_vars(TickLog) /\ WF_vars(LerpPositive)

\* C10: eventually the tick task is done and every contender, the winner
\* included, is at its target, for good.
C10Settles ==
    <>[](tick_task = Task_done /\ \A n \in DOMAIN players : Arrived(n))

\* the replay ended on a win and the winner and another contender arrived
C10Witness ==
    /\ tick_task = Task_done
    /\ \A n \in DOMAIN players : Arrived(n)
    /\ \E n \in DOMAIN players : players[n].gold /\ players[n].travelled > 0
    /\ \E n \in DOMAIN players : ~players[n].gold /\ players[n].travelled > 0

(***************************************************************************)
(* Lanes: logs with more contenders than lanes                             *)
(***************************************************************************)
\* The logs of this part name up to NumLaneNames contenders.  The code only
\* compares names for equality, so the logs are taken up to renaming: the
\* i-th distinct name of a log is AllNames[i].  A log is built from entries
\* <<kind, i>>, the line of the given kind naming AllNames[i].
MaxIdx(es) ==
    IF es = <<>> THEN 0
    ELSE CHOOSE i \in {es[j][2] : j \in 1..Len(es)} :
            \A j \in 1..Len(es) : es[j][2] <= i

Extensions(es) ==
    {<<kd, i>> : kd \in {"alive", "won"},
                 i \in 1..Min(NumLaneNames, MaxIdx(es) + 1)}

RECURSIVE LaneEntries(_)
LaneEntries(k) ==
    IF k = 0 THEN {<<>>}
    ELSE LET shorter == LaneEntries(k - 1)
             longest == {es \in shorter : Len(es) = k - 1}
         IN  shorter \cup
             UNION {{Append(es, e) : e \in Extensions(es)} : es \in longest}

EntryLine(e) ==
    IF e[1] = "alive" THEN AliveLine(AllNames[e[2]]) ELSE WonLine(AllNames[e[2]])

LaneLogs == {[j \in 1..Len(es) |-> EntryLine(es[j])] : es \in LaneEntries(MaxLaneLen)}

InitLanes ==
    /\ \E ls \in LaneLogs : InitRace(ls)
    /\ InitCadence
    /\ NoParse

SpecLanes == InitLanes /\ [][Next]_vars

\* the number of distinct names that appear in ls before the first line naming n
Rank(ls, n) ==
    LET first == CHOOSE i \in 1..Len(ls) :
                    /\ Recognized(ls[i]) /\ LineEvent(ls[i]).name = n
                    /\ \A j \in 1..(i - 1) :
                          ~(Recognized(ls[j]) /\ LineEvent(ls[j]).name = n)
    IN  Cardinality(NamedIn(SubSeq(ls, 1, first - 1)))

C4Inv ==
    /\ Len(LANES_X) = 4
    /\ next_lane = Cardinality(DOMAIN players)
    /\ \A n \in DOMAIN players :
          players[n].x = LANES_X[(Rank(Consumed, n) % 4) + 1]
C4Step ==
    \A n \in DOMAIN players :
        n \in DOMAIN players' /\ players'[n].x = players[n].x
\* C4: the k-th distinct name of the consumed Alive and Won lines has the
\* lane k mod 4, a repeated name takes no lane, and a lane never changes.
C4RoundRobin == []C4Inv /\ [][C4Step]_vars

\* a fifth contender shares the lane of the first
C4Witness ==
    /\ Cardinality(DOMAIN players) = 5
    /\ \E n, m \in DOMAIN players :
          /\ Rank(Consumed, n) = 0
          /\ Rank(Consumed, m) = 4
          /\ players[n].x = players[m].x

(***************************************************************************)
(* The parser on one line of the log file                                  *)
(***************************************************************************)
NameTokens == {"a", " ", "(", IS_ALIVE}
ParseInputs ==
    {lead \o head \o digits \o open \o name \o close \o verb \o trail :
        lead   \in {<<>>, <<" ">>, <<"x">>},
        head   \in {<<THE_PLAYER>>, <<>>},
        digits \in SeqsUpTo(Digit, MaxDigits),
        open   \in {<<"(">>, <<>>},
        name   \in SeqsUpTo(NameTokens, MaxNameLen),
        close  \in {<<")">>, <<>>},
        verb   \in {<<IS_ALIVE>>, <<HAS_WON>>, <<>>},
        trail  \in {<<>>, <<"\n">>, <<"x">>, <<HAS_WON, "\n">>}}

InitParse ==
    /\ p_pc = "input"
    /\ p_line \in ParseInputs
    /\ p_event = [kind |-> "none", name |-> <<>>]
    /\ InitRace(<<>>)
    /\ InitCadence

\* what _clean and the two matches of _tick_log make of the line p_line
ParseLine ==
    /\ p_pc = "input"
    /\ p_pc' = "parsed"
    /\ p_event' = LET cleaned == Clean(<<p_line>>)
                  IN  IF cleaned = <<>> THEN [kind |-> "none", name |-> <<>>]
                      ELSE LineEvent(cleaned[1])
    /\ UNCHANGED <<p_line, raceVars, cadenceVars>>

NextParse == ParseLine

SpecParse == InitParse /\ [][NextParse]_vars

IsNumber(ds) == Len(ds) >= 1 /\ \A i \in 1..Len(ds) : ds[i] \in Digit
IsName(X) == Len(X) >= 1 /\ \A i \in 1..Len(X) : X[i] # ")"
Sentence(verb, ds, X) == <<THE_PLAYER>> \o ds \o <<"(">> \o X \o <<")", verb>>
Pieces(l) == {SubSeq(l, i, j) : i \in 1..(Len(l) + 1), j \in 0..Len(l)}

\* l starts with the text "The player N(X)<verb>"
StartsWithShape(l, verb, X) ==
    /\ IsName(X)
    /\ \E k \in 1..(Len(l) - 1) :
          LET ds == SubSeq(l, 2, k + 1)
              s  == Sentence(verb, ds, X)
          IN  /\ IsNumber(ds)
              /\ Len(l) >= Len(s)
              /\ SubSeq(l, 1, Len(s)) = s

\* l is the text "The player N(X)<verb>"
IsShape(l, verb, X) ==
    /\ IsName(X)
    /\ \E k \in 1..(Len(l) - 1) :
          /\ IsNumber(SubSeq(l, 2, k + 1))
          /\ l = Sentence(verb, SubSeq(l, 2, k + 1), X)

Yields(kind, X) == p_event = [kind |-> kind, name |-> X]

\* C7 as stated: Alive(X) exactly for the lines "The player N(X) is alive.",
\* Won(X) exactly for the lines "The player N(X) has won.", no event for any
\* other line.
C7ExactShape ==
    p_pc = "parsed" =>
        LET l == Strip(p_line)
        IN  /\ \A X \in Pieces(l) :
                  /\ Yields("alive", X) <=> IsShape(l, IS_ALIVE, X)
                  /\ Yields("won", X) <=> IsShape(l, HAS_WON, X)
            /\ p_event.kind = "none" <=>
                  \A X \in Pieces(l) :
                      ~IsShape(l, IS_ALIVE, X) /\ ~IsShape(l, HAS_WON, X)

\* C7 amended: Alive(X) exactly for the lines that start with
\* "The player N(X) is alive.", Won(X) exactly for those that start with
\* "The player N(X) has won.", whatever follows the period; never both; no
\* event for any other line.
C7StartShape ==
    p_pc = "parsed" =>
        LET l == Strip(p_line)
        IN  /\ \A X \in Pieces(l) :
                  /\ Yields("alive", X) <=> StartsWithShape(l, IS_ALIVE, X)
                  /\ Yields("won", X) <=> StartsWithShape(l, HAS_WON, X)
                  /\ ~(StartsWithShape(l, IS_ALIVE, X) /\ StartsWithShape(l, HAS_WON, X))
            /\ p_event.kind \in {"alive", "won", "none"}
            /\ p_event.kind = "none" <=>
                  \A X \in Pieces(l) :
                      /\ ~StartsWithShape(l, IS_ALIVE, X)
                      /\ ~StartsWithShape(l, HAS_WON, X)

\* an alive sentence followed by more text was parsed
C7Witness ==
    /\ p_pc = "parsed"
    /\ p_event.kind = "alive"
    /\ Strip(p_line)[Len(Strip(p_line))] = "x"

(***************************************************************************)
(* Tick cadence.  src/main.py keeps the interval at LINE_TIME; the keys    *)
(* that halve and double it are described by the specification only and    *)
(* are modelled from it.                                                   *)
(***************************************************************************)
MIN_LINE_TIME == 500
MAX_LINE_TIME == 20000

\* mutant: the halved interval is not clamped
HalvedNoClamp(t) == t \div 2

Halved(t) == Max(MIN_LINE_TIME, t \div 2)
Doubled(t) == Min(MAX_LINE_TIME, 2 * t)

\* the key that halves the interval; the speed follows the interval
SpeedUp ==
    /\ line_time' = Halved(line_time)
    /\ speed' = STEP_DIST \div line_time'
    /\ UNCHANGED <<raceVars, parseVars>>

\* the key that doubles the interval
SlowDown ==
    /\ line_time' = Doubled(line_time)
    /\ speed' = STEP_DIST \div line_time'
    /\ UNCHANGED <<raceVars, parseVars>>

LerpCadence ==
    /\ \E dt \in FrameTimes : LerpMarbles(speed, dt)
    /\ UNCHANGED <<cadenceVars, parseVars>>

InitCadenceRace ==
    /\ \E ls \in SeqsUpTo({AliveLine(AllNames[1])}, MaxCadenceLen) : InitRace(ls)
    /\ InitCadence
    /\ NoParse

NextCadence == TickLog \/ LerpCadence \/ SpeedUp \/ SlowDown

SpecCadence == InitCadenceRace /\ [][NextCadence]_vars

C5Inv ==
    /\ MIN_LINE_TIME <= line_time
    /\ line_time <= MAX_LINE_TIME
    /\ speed * line_time = STEP_DIST
C5Step ==
    FrameMoved =>
        \E dt \in FrameTimes :
            \A n \in DOMAIN players :
                players'[n].travelled - players[n].travelled =
                    Min((STEP_DIST * dt) \div line_time,
                        players[n].target - players[n].travelled)
====
